---- MODULE Spec2Model ----
(***************************************************************************)
(* Blood Bank API (src/main.py): user registration and login over the      *)
(* "blooduser" collection.  The handlers register_user and login_user, the *)
(* two diagnostic routes, the pydantic request models and the passlib      *)
(* password context are modelled; the document store (database.py: db,     *)
(* create_document) is modelled from its contract.                         *)
(*                                                                         *)
(* Python values: a str is a TLA+ string, except that an email and a       *)
(* password hash are tuples of one-character / one-token strings so that   *)
(* str.lower() and hash identification are computed; None is Null; a dict  *)
(* is a record whose DOMAIN is the set of keys present.                    *)
(***************************************************************************)
EXTENDS Integers, Sequences, FiniteSets, TLC

\* ----------------------------------------------------------------- bounds
NumClients == 2       \* request slots that may be in flight together
MaxRequests == 3      \* requests received in one behaviour
NumSalts == 1         \* distinct salts the hasher may draw
MaxSeed == 1          \* documents already in the collection at process start

\* ------------------------------------------------------ program constants
MinPasswordLen == 6   \* Field(..., min_length=6)
MaxCollections == 10  \* collections[:10]

Null == "null"

Clients == 1..NumClients
FirstClient == CHOOSE p \in Clients : \A q \in Clients : p <= q

\* ------------------------------------------------------------ input sets
\* Emails as character tuples: two case variants of one address, another
\* address, and a string with no "@" (not an email).
EmailInputs ==
    { <<"a", "@", "x">>, <<"A", "@", "X">>, <<"b", "@", "x">>, <<"a", "x">> }

\* One password below the minimum length and two of legal length.
PasswordInputs == { "abc", "secret1", "hunter22" }

\* The people who register: name, password, phone, city, blood_group as
\* submitted; absent optionals are None.
PersonInputs ==
    { [name |-> "Alice", password |-> "secret1", phone |-> Null, city |-> Null,
       blood_group |-> Null],
      [name |-> "Bob", password |-> "hunter22", phone |-> "555", city |-> "Pune",
       blood_group |-> "O+"],
      [name |-> "Eve", password |-> "abc", phone |-> Null, city |-> "Pune",
       blood_group |-> Null] }

RegisterPayloads ==
    { [name |-> f.name, email |-> e, password |-> f.password, phone |-> f.phone,
       city |-> f.city, blood_group |-> f.blood_group] :
        f \in PersonInputs, e \in EmailInputs }

LoginPayloads == [email : EmailInputs, password : PasswordInputs]

\* The requests of the parallel runs: the bodies validation accepts, for
\* the one address in both its case variants.
ValidRegisterPayloads ==
    { r \in RegisterPayloads :
        r.email \in { <<"a", "@", "x">>, <<"A", "@", "X">> } /\ r.name # "Eve" }

ValidLoginPayloads ==
    { l \in LoginPayloads :
        l.email \in { <<"a", "@", "x">>, <<"A", "@", "X">> } /\ l.password # "abc" }

\* ------------------------------------------------------------ str.lower()
LowerChar(c) ==
    CASE c = "A" -> "a"
      [] c = "B" -> "b"
      [] c = "X" -> "x"
      [] OTHER -> c

Lower(s) == [i \in DOMAIN s |-> LowerChar(s[i])]

\* ------------------------------------------------- pydantic request models
\* EmailStr: exactly one "@", with something on both sides of it.
EmailStr(e) ==
    /\ Cardinality({i \in DOMAIN e : e[i] = "@"}) = 1
    /\ e[1] # "@"
    /\ e[Len(e)] # "@"

\* Mutant: the password field without its min_length.
RegisterRequestNoMinLength(payload) == EmailStr(payload.email)

RegisterRequest(payload) ==
    /\ EmailStr(payload.email)
    /\ Len(payload.password) >= MinPasswordLen

LoginRequest(payload) == EmailStr(payload.email)

\* --------------------------------------------------------- password hasher
\* pwd_context = CryptContext(schemes=["bcrypt"]).  A bcrypt hash string is
\* the tuple <<ident, salt, digest>>; the digest of a secret is modelled by
\* the secret itself, which only verify reads.  "" is the empty tuple.
HashPassword(secret, salt) == <<"$2b$", ToString(salt), secret>>

EmptyString == <<>>

\* Scheme identification by the hash's ident prefix.
Identify(h) == Len(h) > 0 /\ h[1] = "$2b$"

\* pwd_context.verify(secret, hash): a hash no configured scheme identifies
\* raises UnknownHashError, an identified one that does not parse raises
\* ValueError; otherwise the digests are compared.
PwdVerify(secret, h) ==
    IF ~Identify(h) \/ Len(h) # 3 THEN "raises"
    ELSE IF h[3] = secret THEN "true"
    ELSE "false"

\* ------------------------------------------------------------- user store
\* dict.get(key, default)
Get(d, key, default) == IF key \in DOMAIN d THEN d[key] ELSE default

Matches(s, email) == {i \in DOMAIN s : Get(s[i], "email", EmptyString) = email}

\* db["blooduser"].find_one({"email": email}): the index of the first
\* matching document, 0 for None.
FindOne(s, email) ==
    IF Matches(s, email) = {} THEN 0
    ELSE CHOOSE i \in Matches(s, email) : \A j \in Matches(s, email) : i <= j

\* str(ObjectId)
Str(id) == ToString(id)

\* create_document("blooduser", document): inserts and returns the new id.
CreateDocument(s, id, document) == Append(s, ("_id" :> id) @@ document)

\* db.list_collection_names(): a collection exists once it holds a document.
ListCollectionNames(s) == IF Len(s) > 0 THEN <<"blooduser">> ELSE <<>>

\* collections[:10]
Truncate(names) ==
    SubSeq(names, 1, IF Len(names) < MaxCollections THEN Len(names) ELSE MaxCollections)

\* Documents the collection may hold before the process starts: written by
\* another writer, so password_hash and is_active may be absent, and the
\* hash may be empty or not a bcrypt hash.
SeedFields ==
    { [password_hash |-> HashPassword("secret1", 1), is_active |-> TRUE],
      [password_hash |-> HashPassword("secret1", 1), is_active |-> FALSE],
      [password_hash |-> HashPassword("secret1", 1)],
      [password_hash |-> EmptyString, is_active |-> TRUE],
      [password_hash |-> EmptyString, is_active |-> FALSE],
      [password_hash |-> <<"plain", "secret1">>, is_active |-> TRUE],
      [password_hash |-> <<"$2b$">>, is_active |-> TRUE],
      [is_active |-> TRUE] }

SeedDocs ==
    { [name |-> "Carol", phone |-> Null, city |-> "Agra", blood_group |-> Null,
       role |-> "user"] @@ f : f \in SeedFields }

\* The i-th document found at start has an address of its own: a@x, b@x, ...
SeedEmail(i) == << <<"a", "b", "c", "d">>[i], "@", "x" >>

SeedStores ==
    UNION { { [i \in 1..n |-> ("_id" :> i) @@ ("email" :> SeedEmail(i)) @@ f[i]] :
                f \in [1..n -> SeedDocs] } : n \in 0..MaxSeed }

\* -------------------------------------------------------------- responses
NoResponse == [status_code |-> 0]

HTTPException(status_code, detail) == [status_code |-> status_code, detail |-> detail]

\* An exception no handler catches: the server answers 500.
InternalServerError == [status_code |-> 500, detail |-> "Internal Server Error"]

\* The framework's answer to a body the request model rejects: the fields
\* that failed and, where the framework's validation errors carry it, the
\* rejected input of each.
ValidationError(payload, failed, echo) ==
    [status_code |-> 422, errors |-> failed,
     input |-> [k \in (IF echo THEN failed ELSE {}) |-> payload[k]]]

RegisterFailed(payload) ==
    (IF EmailStr(payload.email) THEN {} ELSE {"email"})
        \cup (IF Len(payload.password) >= MinPasswordLen THEN {} ELSE {"password"})

LoginFailed(payload) == IF EmailStr(payload.email) THEN {} ELSE {"email"}

\* lines 84-93
Document(payload, password_hash) ==
    [name |-> payload.name, email |-> Lower(payload.email), phone |-> payload.phone,
     city |-> payload.city, blood_group |-> payload.blood_group, role |-> "user",
     password_hash |-> password_hash, is_active |-> TRUE]

\* Mutant: the whole document is echoed back.
RegisterResponseWholeDocument(inserted_id, document) ==
    [status_code |-> 200, status |-> "success", message |-> "Registration successful",
     user |-> [id |-> inserted_id, name |-> document.name, email |-> document.email,
               city |-> document.city, blood_group |-> document.blood_group,
               password_hash |-> document.password_hash]]

\* lines 97-107
RegisterResponse(inserted_id, document) ==
    [status_code |-> 200, status |-> "success", message |-> "Registration successful",
     user |-> [id |-> inserted_id, name |-> document.name, email |-> document.email,
               city |-> document.city, blood_group |-> document.blood_group]]

\* lines 125-135
LoginResponse(user) ==
    [status_code |-> 200, status |-> "success", message |-> "Login successful",
     user |-> [id |-> Str(Get(user, "_id", 0)), name |-> Get(user, "name", Null),
               email |-> Get(user, "email", EmptyString), city |-> Get(user, "city", Null),
               blood_group |-> Get(user, "blood_group", Null)]]

\* Mutant: the existence check queries with the email as typed.
RegisterKeyAsTyped(payload) == payload.email

\* Mutant: login queries with the email as typed.
LoginKeyAsTyped(payload) == payload.email

\* The email both handlers query the collection with.
RegisterKey(payload) == Lower(payload.email)

LoginKey(payload) == Lower(payload.email)

\* ------------------------------------------------------------------ state
VARIABLES
    db,          \* whether the database handle is set (db is not None)
    store,       \* the blooduser collection, in insertion order
    nextId,      \* the next ObjectId the store generates
    pc,          \* per client: "idle", "insert" (register, before line 95), "done"
    req,         \* per client: the route and payload of its request
    document,    \* per client: register's document, built at lines 84-93
    resp,        \* per client: the response to its request
    calls,       \* per client: the store and hasher calls its request has made
    nreq,        \* requests received so far, and documents found at start
    attempted,   \* lowercased emails of the valid registrations received
    first,       \* per client: its registration was the first with its email
    registered   \* the successful registrations: payload fields and id

vars == <<db, store, nextId, pc, req, document, resp, calls, nreq, attempted,
          first, registered>>

NoRequest == [route |-> "none"]

NoDocument == <<>>

\* An empty collection; the database handle may be unset.
Init ==
    /\ db \in BOOLEAN
    /\ store = <<>>
    /\ nextId = 1
    /\ pc = [p \in Clients |-> "idle"]
    /\ req = [p \in Clients |-> NoRequest]
    /\ document = [p \in Clients |-> NoDocument]
    /\ resp = [p \in Clients |-> NoResponse]
    /\ calls = [p \in Clients |-> <<>>]
    /\ nreq = 0
    /\ attempted = {}
    /\ first = [p \in Clients |-> FALSE]
    /\ registered = {}

\* A collection that already holds documents.
InitStore ==
    /\ db = TRUE
    /\ store \in SeedStores
    /\ nextId = Len(store) + 1
    /\ pc = [p \in Clients |-> "idle"]
    /\ req = [p \in Clients |-> NoRequest]
    /\ document = [p \in Clients |-> NoDocument]
    /\ resp = [p \in Clients |-> NoResponse]
    /\ calls = [p \in Clients |-> <<>>]
    /\ nreq = Len(store)
    /\ attempted = {}
    /\ first = [p \in Clients |-> FALSE]
    /\ registered = {}

\* A client takes a new request when its last one has been answered.
Receive(p, route, payload) ==
    /\ pc[p] # "insert"
    /\ nreq < MaxRequests
    /\ nreq' = nreq + 1
    /\ req' = [req EXCEPT ![p] = [route |-> route, payload |-> payload]]

Answer(p, response, made) ==
    /\ pc' = [pc EXCEPT ![p] = "done"]
    /\ resp' = [resp EXCEPT ![p] = response]
    /\ calls' = [calls EXCEPT ![p] = made]
    /\ document' = [document EXCEPT ![p] = NoDocument]

\* GET /
ReadRoot(p) ==
    /\ Receive(p, "/", <<>>)
    /\ Answer(p, [status_code |-> 200, message |-> "Blood Bank API is running"], <<>>)
    /\ UNCHANGED <<db, store, nextId, attempted, first, registered>>

\* GET /test; urlSet: DATABASE_URL is in the environment; fails: the call
\* of list_collection_names raises.
TestResponse(urlSet, fails) ==
    IF ~db THEN
        [status_code |-> 200, backend |-> "Running",
         database |-> "Available but not initialized", database_url |-> Null,
         database_name |-> Null, connection_status |-> "Not Connected",
         collections |-> <<>>]
    ELSE
        [status_code |-> 200, backend |-> "Running",
         database |-> IF fails THEN "Connected but Error" ELSE "Connected & Working",
         database_url |-> IF urlSet THEN "Set" ELSE "Not Set",
         database_name |-> "name", connection_status |-> "Connected",
         collections |-> IF fails THEN <<>> ELSE Truncate(ListCollectionNames(store))]

TestDatabase(p, urlSet, fails) ==
    /\ Receive(p, "/test", <<>>)
    /\ Answer(p, TestResponse(urlSet, fails),
              IF db THEN <<"list_collection_names">> ELSE <<>>)
    /\ UNCHANGED <<db, store, nextId, attempted, first, registered>>

\* POST /auth/register up to the built document: validation, lines 76-93.
RegisterUser(p, payload) ==
    /\ Receive(p, "/auth/register", payload)
    /\ IF ~RegisterRequest(payload) THEN
           /\ \E echo \in BOOLEAN :
                  Answer(p, ValidationError(payload, RegisterFailed(payload), echo), <<>>)
           /\ UNCHANGED <<attempted, first>>
       ELSE IF ~db THEN
           /\ Answer(p, HTTPException(500, "Database not configured"), <<>>)
           /\ UNCHANGED <<attempted, first>>
       ELSE
           /\ attempted' = attempted \cup {Lower(payload.email)}
           /\ first' = [first EXCEPT ![p] = Lower(payload.email) \notin attempted]
           /\ IF FindOne(store, RegisterKey(payload)) # 0 THEN
                  Answer(p, HTTPException(400, "Email already registered"),
                         <<"find_one">>)
              ELSE
                  /\ pc' = [pc EXCEPT ![p] = "insert"]
                  /\ resp' = [resp EXCEPT ![p] = NoResponse]
                  /\ calls' = [calls EXCEPT ![p] = <<"find_one", "hash">>]
                  /\ \E salt \in 1..NumSalts :
                         document' = [document EXCEPT ![p] =
                             Document(payload, HashPassword(payload.password, salt))]
    /\ UNCHANGED <<db, store, nextId, registered>>

\* register_user, lines 95-107: the insert and the success response.
InsertResponse(p) == RegisterResponse(Str(nextId), document[p])

\* Mutant: the insert is refused when the email is in the collection by then
\* (a unique index on email).
RegisterInsertUnique(p) ==
    /\ pc[p] = "insert"
    /\ IF FindOne(store, document[p].email) # 0 THEN
           /\ Answer(p, HTTPException(400, "Email already registered"),
                     Append(calls[p], "insert"))
           /\ UNCHANGED <<store, nextId, registered>>
       ELSE
           /\ store' = CreateDocument(store, nextId, document[p])
           /\ nextId' = nextId + 1
           /\ Answer(p, InsertResponse(p), Append(calls[p], "insert"))
           /\ registered' = registered \cup
                  {[email |-> Lower(req[p].payload.email),
                    password |-> req[p].payload.password,
                    name |-> req[p].payload.name, city |-> req[p].payload.city,
                    blood_group |-> req[p].payload.blood_group, id |-> Str(nextId)]}
    /\ UNCHANGED <<db, req, nreq, attempted, first>>

RegisterInsert(p) ==
    /\ pc[p] = "insert"
    /\ store' = CreateDocument(store, nextId, document[p])
    /\ nextId' = nextId + 1
    /\ Answer(p, InsertResponse(p), Append(calls[p], "insert"))
    /\ registered' = registered \cup
           {[email |-> Lower(req[p].payload.email), password |-> req[p].payload.password,
             name |-> req[p].payload.name, city |-> req[p].payload.city,
             blood_group |-> req[p].payload.blood_group, id |-> Str(nextId)]}
    /\ UNCHANGED <<db, req, nreq, attempted, first>>

\* Mutant: is_active is looked at before the password is verified.
LoginOutcomeActiveFirst(payload, i) ==
    IF i = 0 THEN HTTPException(401, "Invalid email or password")
    ELSE IF ~Get(store[i], "is_active", TRUE) THEN
        HTTPException(403, "Account is inactive")
    ELSE LET verified == PwdVerify(payload.password,
                                   Get(store[i], "password_hash", EmptyString))
         IN  IF verified = "raises" THEN InternalServerError
             ELSE IF verified = "false" THEN
                 HTTPException(401, "Invalid email or password")
             ELSE LoginResponse(store[i])

\* login_user, lines 115-135, for the document at index i of the store.
LoginOutcome(payload, i) ==
    IF i = 0 THEN HTTPException(401, "Invalid email or password")
    ELSE LET verified == PwdVerify(payload.password,
                                   Get(store[i], "password_hash", EmptyString))
         IN  IF verified = "raises" THEN InternalServerError
             ELSE IF verified = "false" THEN
                 HTTPException(401, "Invalid email or password")
             ELSE IF ~Get(store[i], "is_active", TRUE) THEN
                 HTTPException(403, "Account is inactive")
             ELSE LoginResponse(store[i])

\* Mutant: a login stamps the document it found.
LoginUserStamping(p, payload) ==
    /\ Receive(p, "/auth/login", payload)
    /\ IF ~LoginRequest(payload) THEN
           /\ \E echo \in BOOLEAN :
                  Answer(p, ValidationError(payload, LoginFailed(payload), echo), <<>>)
           /\ store' = store
       ELSE IF ~db THEN
           /\ Answer(p, HTTPException(500, "Database not configured"), <<>>)
           /\ store' = store
       ELSE
           /\ Answer(p, LoginOutcome(payload, FindOne(store, LoginKey(payload))),
                     IF FindOne(store, LoginKey(payload)) = 0 THEN <<"find_one">>
                     ELSE <<"find_one", "verify">>)
           /\ store' = [i \in DOMAIN store |->
                           IF i = FindOne(store, LoginKey(payload))
                           THEN ("last_login" :> "now") @@ store[i]
                           ELSE store[i]]
    /\ UNCHANGED <<db, nextId, attempted, first, registered>>

\* POST /auth/login: validation, lines 112-135.
LoginUser(p, payload) ==
    /\ Receive(p, "/auth/login", payload)
    /\ IF ~LoginRequest(payload) THEN
           \E echo \in BOOLEAN :
               Answer(p, ValidationError(payload, LoginFailed(payload), echo), <<>>)
       ELSE IF ~db THEN
           Answer(p, HTTPException(500, "Database not configured"), <<>>)
       ELSE
           Answer(p, LoginOutcome(payload, FindOne(store, LoginKey(payload))),
                  IF FindOne(store, LoginKey(payload)) = 0 THEN <<"find_one">>
                  ELSE <<"find_one", "verify">>)
    /\ UNCHANGED <<db, store, nextId, attempted, first, registered>>

Handle(p, registers, logins) ==
    \/ ReadRoot(p)
    \/ \E urlSet \in BOOLEAN, fails \in BOOLEAN : TestDatabase(p, urlSet, fails)
    \/ \E payload \in registers : RegisterUser(p, payload)
    \/ RegisterInsert(p)
    \/ \E payload \in logins : LoginUser(p, payload)

\* Requests handled one at a time.
Next == Handle(FirstClient, RegisterPayloads, LoginPayloads)

\* Requests handled in parallel: the handlers' store calls interleave.
NextConc == \E p \in Clients : Handle(p, ValidRegisterPayloads, ValidLoginPayloads)

Spec == Init /\ [][Next]_vars

SpecConc == Init /\ [][NextConc]_vars

SpecStore == InitStore /\ [][Next]_vars

\* ================================================================ claims
Done(p, route) == pc[p] = "done" /\ req[p].route = route

Succeeded(r) == r.status_code = 200 /\ "user" \in DOMAIN r

InvalidCredentials == HTTPException(401, "Invalid email or password")

\* -------------------------------------------------------------------- C1
\* C1: with requests handled one at a time from an empty collection, the
\* first valid registration with an email succeeds and returns a non-empty
\* id, every later one whose email lowercases to the same address is
\* refused with 400 "Email already registered" and inserts nothing, so each
\* address has exactly one successful registration and one document.
C1_RegisterOncePerEmail ==
    LET p == FirstClient IN
    /\ (Done(p, "/auth/register") /\ RegisterRequest(req[p].payload) /\ db) =>
           IF first[p]
           THEN /\ Succeeded(resp[p])
                /\ resp[p].user.id # ""
                /\ resp[p].user.email = Lower(req[p].payload.email)
           ELSE resp[p] = HTTPException(400, "Email already registered")
    /\ pc[p] # "insert" =>
           /\ \A e \in attempted :
                  /\ Cardinality(Matches(store, e)) = 1
                  /\ Cardinality({r \in registered : r.email = e}) = 1
           /\ Len(store) = Cardinality(attempted)

\* A case variant of a registered address has been refused.
C1_Witness ==
    LET p == FirstClient IN
    /\ Done(p, "/auth/register")
    /\ RegisterRequest(req[p].payload)
    /\ ~first[p]
    /\ req[p].payload.email # Lower(req[p].payload.email)
    /\ resp[p].status_code = 400
    /\ Len(store) = 1

\* -------------------------------------------------------------------- C2
\* C2: in every state reached from an empty collection by any sequence or
\* interleaving of register and login requests, no two stored documents
\* have the same email.
C2_UniqueEmails ==
    \A i, j \in DOMAIN store : i # j => store[i].email # store[j].email

\* -------------------------------------------------------------------- C3
\* C3: the existence check and the insert are separate steps with nothing
\* atomic between them: a registration that passed the check inserts its
\* document and succeeds even when, by then, the collection holds a
\* document with the same email, so two registrations in flight together
\* can both succeed and leave two documents with one email.
C3_InsertAfterCheckUnconditional ==
    [][\A p \in Clients :
          (pc[p] = "insert" /\ pc'[p] = "done") =>
              /\ Succeeded(resp'[p])
              /\ Cardinality(Matches(store', document[p].email))
                     = Cardinality(Matches(store, document[p].email)) + 1]_vars

\* Two clients' registrations of one address have both succeeded and the
\* collection holds two documents with that email.
C3_Witness ==
    \E p, q \in Clients :
        /\ p # q
        /\ Done(p, "/auth/register") /\ Succeeded(resp[p])
        /\ Done(q, "/auth/register") /\ Succeeded(resp[q])
        /\ resp[p].user.email = resp[q].user.email
        /\ Cardinality(Matches(store, resp[p].user.email)) = 2

\* -------------------------------------------------------------------- C4
\* The password the request carries is the one the document's hash was made
\* from.
CorrectPassword(payload, user) ==
    PwdVerify(payload.password, Get(user, "password_hash", EmptyString)) = "true"

\* The documents whose email is the login's, lowercased.
UsersOf(payload) == {i \in DOMAIN store : store[i].email = Lower(payload.email)}

\* C4: whatever the collection holds, a login with an email no document has
\* and a login with a document's email but a wrong password get the same
\* response, 401 "Invalid email or password", whether the user is active
\* or not.
C4_SameResponse ==
    LET p == FirstClient IN
    (Done(p, "/auth/login") /\ LoginRequest(req[p].payload) /\ db) =>
        ((\A i \in UsersOf(req[p].payload) : ~CorrectPassword(req[p].payload, store[i]))
            => resp[p] = InvalidCredentials)

\* -------------------------------------------------------------------- C5
\* C5: for every stored user whose is_active is false, a login with that
\* user's email and correct password is answered 403 "Account is inactive",
\* never 401 and never success; and 403 is answered only once the password
\* has been verified against the user's hash.
C5_InactiveIs403 ==
    LET p == FirstClient IN
    (Done(p, "/auth/login") /\ LoginRequest(req[p].payload) /\ db) =>
        /\ \A i \in UsersOf(req[p].payload) :
               (~Get(store[i], "is_active", TRUE) /\ CorrectPassword(req[p].payload, store[i]))
                   => resp[p] = HTTPException(403, "Account is inactive")
        /\ resp[p].status_code = 403 =>
               /\ calls[p] = <<"find_one", "verify">>
               /\ \E i \in UsersOf(req[p].payload) :
                      /\ CorrectPassword(req[p].payload, store[i])
                      /\ ~Get(store[i], "is_active", TRUE)

\* A login with an inactive user's email, in another case, and its password
\* has been answered 403.
C5_Witness ==
    LET p == FirstClient IN
    /\ Done(p, "/auth/login")
    /\ resp[p] = HTTPException(403, "Account is inactive")
    /\ req[p].payload.email # Lower(req[p].payload.email)
    /\ \E i \in UsersOf(req[p].payload) : CorrectPassword(req[p].payload, store[i])

\* -------------------------------------------------------------------- C6
\* C6: with requests handled one at a time, after a successful registration
\* and any further requests, a login with any case variant of its email and
\* the same password succeeds and returns the name, lowercased email, city
\* and blood_group of the registration, as its response echoed them, absent
\* optional fields as null.
C6_LoginReturnsRegistered ==
    LET p == FirstClient IN
    /\ (Done(p, "/auth/login") /\ LoginRequest(req[p].payload)) =>
           \A r \in registered :
               (r.email = Lower(req[p].payload.email) /\ r.password = req[p].payload.password)
                   => /\ Succeeded(resp[p])
                      /\ resp[p].message = "Login successful"
                      /\ resp[p].user = [id |-> r.id, name |-> r.name, email |-> r.email,
                                         city |-> r.city, blood_group |-> r.blood_group]
    /\ (Done(p, "/auth/register") /\ Succeeded(resp[p])) =>
           /\ resp[p].user.name = req[p].payload.name
           /\ resp[p].user.email = Lower(req[p].payload.email)
           /\ resp[p].user.city = req[p].payload.city
           /\ resp[p].user.blood_group = req[p].payload.blood_group
           /\ \E r \in registered : r.id = resp[p].user.id /\ r.email = resp[p].user.email

\* A login in another case than the stored email has succeeded for a user
\* registered without city and blood_group.
C6_Witness ==
    LET p == FirstClient IN
    /\ Done(p, "/auth/login")
    /\ Succeeded(resp[p])
    /\ req[p].payload.email # resp[p].user.email
    /\ resp[p].user.city = Null
    /\ resp[p].user.blood_group = Null
    /\ \E r \in registered : r.email = resp[p].user.email /\ r.name = resp[p].user.name

\* -------------------------------------------------------------------- C7
\* A response field named for or holding a stored password hash.
CarriesHash(r) ==
    \/ "password_hash" \in DOMAIN r
    \/ /\ "user" \in DOMAIN r
       /\ \/ "password_hash" \in DOMAIN r.user
          \/ \E i \in DOMAIN store :
                 r.user.email = Get(store[i], "password_hash", EmptyString)
    \/ /\ "input" \in DOMAIN r
       /\ "email" \in DOMAIN r.input
       /\ \E i \in DOMAIN store :
              r.input.email = Get(store[i], "password_hash", <<"absent">>)

\* A response field named for or holding the password the request carried.
CarriesPassword(r, payload) ==
    \/ "password" \in DOMAIN r
    \/ "detail" \in DOMAIN r /\ r.detail = payload.password
    \/ "message" \in DOMAIN r /\ r.message = payload.password
    \/ /\ "user" \in DOMAIN r
       /\ \/ "password" \in DOMAIN r.user
          \/ \E k \in {"id", "name", "city", "blood_group"} : r.user[k] = payload.password
    \/ "input" \in DOMAIN r /\ "password" \in DOMAIN r.input

HasPassword(p) == req[p].route \in {"/auth/register", "/auth/login"}

\* C7 as claimed: no response of any endpoint, success or error, contains a
\* stored user's password_hash or the submitted plaintext password.
C7_NoSecretInAnyResponse ==
    \A p \in Clients :
        /\ ~CarriesHash(resp[p])
        /\ (pc[p] = "done" /\ HasPassword(p)) => ~CarriesPassword(resp[p], req[p].payload)

\* C7 as amended: no response of any endpoint contains a stored user's
\* password_hash, and no response other than the framework's 422 validation
\* error contains the submitted plaintext password.
C7_NoSecretInHandlerResponse ==
    \A p \in Clients :
        /\ ~CarriesHash(resp[p])
        /\ (pc[p] = "done" /\ HasPassword(p) /\ resp[p].status_code # 422)
               => ~CarriesPassword(resp[p], req[p].payload)

\* A registration and a login have succeeded against stored hashes, and a
\* 422 has been answered.
C7_Witness ==
    LET p == FirstClient IN
    /\ Done(p, "/auth/login")
    /\ Succeeded(resp[p])
    /\ \E i \in DOMAIN store :
           /\ "password_hash" \in DOMAIN store[i]
           /\ resp[p].user.id = Str(store[i]._id)
    /\ registered # {}

\* -------------------------------------------------------------------- C8
ShortPassword(p) == HasPassword(p) /\ Len(req[p].payload.password) < MinPasswordLen

\* C8 as claimed: a request whose password is shorter than 6 characters is
\* answered 422 by validation, before any store lookup or insert and before
\* any hash or verify call.
C8_ShortPasswordRejected ==
    \A p \in Clients :
        (pc[p] = "done" /\ ShortPassword(p)) =>
            resp[p].status_code = 422 /\ calls[p] = <<>>

\* C8 as amended: a register request whose password is shorter than 6
\* characters is answered 422 by validation, before any store lookup or
\* insert and before any hash or verify call.
C8_ShortRegisterPasswordRejected ==
    \A p \in Clients :
        /\ (pc[p] = "done" /\ ShortPassword(p) /\ req[p].route = "/auth/register") =>
               resp[p].status_code = 422 /\ calls[p] = <<>>
        /\ (pc[p] = "insert") => ~ShortPassword(p)

\* A registration with a valid email and a short password has been answered
\* 422 with the database configured.
C8_Witness ==
    LET p == FirstClient IN
    /\ Done(p, "/auth/register")
    /\ ShortPassword(p)
    /\ EmailStr(req[p].payload.email)
    /\ db
    /\ resp[p].status_code = 422

\* -------------------------------------------------------------------- C9
\* C9: a login against a stored user whose password_hash is absent, empty
\* or malformed raises nothing unhandled: verification counts as failed and
\* the login is answered 401 "Invalid email or password".
C9_BadHashIs401 ==
    LET p == FirstClient IN
    (Done(p, "/auth/login") /\ LoginRequest(req[p].payload) /\ db) =>
        \A i \in UsersOf(req[p].payload) :
            (LET h == Get(store[i], "password_hash", EmptyString)
             IN  ~Identify(h) \/ Len(h) # 3) => resp[p] = InvalidCredentials

\* ------------------------------------------------------------------- C10
\* C10: no operation updates or deletes a stored document: the collection
\* changes only when a registration succeeds, which appends exactly one
\* document, with role "user" and is_active true, after the unchanged
\* existing ones; every login, every refused registration, GET / and
\* GET /test leave the collection as it was.
C10_OnlyRegistrationAppends ==
    [][/\ (store' # store) =>
              /\ Len(store') = Len(store) + 1
              /\ SubSeq(store', 1, Len(store)) = store
              /\ store'[Len(store')].role = "user"
              /\ store'[Len(store')].is_active = TRUE
              /\ \E p \in Clients :
                     /\ pc[p] = "insert" /\ pc'[p] = "done"
                     /\ Succeeded(resp'[p])
                     /\ store'[Len(store')].email = resp'[p].user.email
       /\ \A p \in Clients :
              (pc[p] = "insert" /\ pc'[p] = "done" /\ Succeeded(resp'[p]))
                  => Len(store') = Len(store) + 1
       /\ \A p \in Clients :
              (req'[p] # req[p] \/ nreq' # nreq) => store' = store]_vars

\* A second document has been appended after the first, and a login has
\* then succeeded, the first document being as it was inserted.
C10_Witness ==
    /\ Len(store) = 2
    /\ \E p \in Clients :
           /\ Done(p, "/auth/login")
           /\ Succeeded(resp[p])
           /\ resp[p].user.id = Str(store[1]._id)
    /\ \E r \in registered : r.id = Str(store[1]._id) /\ r.name = store[1].name

====
